---- MODULE Spec2Model ----
(***************************************************************************)
(* The MultiSelect dropdown of src/components/UI/select.tsx as a state     *)
(* machine.  The component's React state (isOpen, searchTerm,              *)
(* selectedOptions, highlightedIndex) and its props are the variables;     *)
(* every DOM event the component listens to is one action, which runs the  *)
(* whole dispatch of that event: every handler the event reaches while it  *)
(* bubbles, all reading the state of the render that installed them, and   *)
(* the re-render that follows.                                             *)
(***************************************************************************)
EXTENDS Integers, Sequences, FiniteSets, TLC

\* ------------------------------------------------------------------ bounds

\* Longest options list handed to the component.
MaxOpts == 3

\* With an empty options list the arrow keys walk the index away from 0
\* without limit; the walk is cut at this distance.
MaxIdx == 2

\* ------------------------------------------------------------ data model

\* highlightedIndex is number | null; Null stands for null and is no index
\* the arrow keys can produce within MaxIdx.
Null == -1000

LabelOf(v) ==
  CASE v = 1 -> <<"A", "p", "p", "l", "e">>
    [] v = 2 -> <<"B", "a", "n", "a", "n", "a">>
    [] v = 3 -> <<"C", "h", "e", "r", "r", "y">>
    [] OTHER -> <<"D", "a", "t", "e">>

\* An Option is a (value, label) pair; the k-th option of the lists handed
\* to the component has value k (Apple = 1, Banana = 2, ...).
Option(v) == [value |-> v, label |-> LabelOf(v)]

\* What options[i] evaluates to when i is no index of the array.  Reading
\* .value of it throws a TypeError; the handlers below say where.
Undefined == [value |-> -1, label |-> <<>>]

\* Placeholder of an event that carries no option.
NoOption == [value |-> -2, label |-> <<>>]

\* The options lists: the first n options, n = 0 .. MaxOpts (unique values).
OptionLists == { [k \in 1..n |-> Option(k)] : n \in 0..MaxOpts }

\* Texts typed into the search input.
SearchTerms == { <<>>, <<"a", "n">> }

\* Where a mousedown can land: on the trigger (chips included), on the
\* panel (search input and option rows included) or anywhere else.
Targets == {"trigger", "panel", "outside"}

VARIABLES
  options, isMultiple, portal, searchable,   \* props, fixed for the lifetime
  isOpen, searchTerm, selectedOptions, highlightedIndex,   \* useState
  mounted,      \* FALSE once the component is unmounted, by its parent or
                \* by React after a render has thrown
  listeners,    \* number of mousedown listeners the component has on document
  unmatchedCalls,  \* onChange calls so far minus commits and chip removals
  calls,        \* the arguments onChange was called with during the last event
  lastEvt,      \* the last event dispatched
  pre,          \* the state the last event started from
  prevEvt,      \* what is remembered of the event before the last
  prePrevSel    \* selectedOptions when prevEvt started

props == <<options, isMultiple, portal, searchable>>
vars == <<options, isMultiple, portal, searchable,
          isOpen, searchTerm, selectedOptions, highlightedIndex,
          mounted, listeners, unmatchedCalls,
          calls, lastEvt, pre, prevEvt, prePrevSel>>

\* ------------------------------------------------------- pure fragments

\* selectedOptions.some((selected) => selected.value === option.value)
IsSelected(sel, option) ==
  \E i \in 1..Len(sel) : sel[i].value = option.value

\* FilterOut with the comparison inverted (=== for !==).
FilterKeepsMatch(sel, option) ==
  SelectSeq(sel, LAMBDA selected : selected.value = option.value)

\* selectedOptions.filter((selected) => selected.value !== option.value)
FilterOut(sel, option) ==
  SelectSeq(sel, LAMBDA selected : selected.value # option.value)

\* NewSelectedOptions without the isSelected test: always appends.
AlwaysAppends(sel, option, multi) ==
  IF multi THEN Append(sel, option) ELSE <<option>>

\* NewSelectedOptions putting a new option first instead of last.
Prepends(sel, option, multi) ==
  IF multi
    THEN IF IsSelected(sel, option)
           THEN FilterOut(sel, option)
           ELSE <<option>> \o sel
    ELSE <<option>>

\* NewSelectedOptions toggling in single-select mode as in multi-select mode.
SingleToggles(sel, option, multi) ==
  IF IsSelected(sel, option)
    THEN FilterOut(sel, option)
    ELSE Append(sel, option)

\* The sequence handleOptionClick passes to setSelectedOptions.
NewSelectedOptions(sel, option, multi) ==
  IF multi
    THEN IF IsSelected(sel, option)
           THEN FilterOut(sel, option)
           ELSE Append(sel, option)
    ELSE <<option>>

\* The argument of onChange: an array of options or one option.
ArrayArg(sel) == [shape |-> "array", items |-> sel]
OptionArg(option) == [shape |-> "option", items |-> <<option>>]

\* OptionClickArg passing the selection of the current render, not the new one.
StaleClickArg(sel, option, multi) ==
  IF multi THEN ArrayArg(sel) ELSE OptionArg(option)

\* The argument handleOptionClick passes to onChange.
OptionClickArg(sel, option, multi) ==
  IF multi THEN ArrayArg(NewSelectedOptions(sel, option, multi))
           ELSE OptionArg(option)

\* handleOptionClick throws before it changes anything when it has to read
\* option.value of undefined: in multi mode, inside the callback of some(),
\* which runs only if something is selected.
OptionClickThrows(sel, option, multi) ==
  multi /\ option = Undefined /\ sel # <<>>

\* The sequence handleRemoveOption passes to setSelectedOptions.
RemovedSelectedOptions(sel, option) == FilterOut(sel, option)

\* The argument handleRemoveOption passes to onChange.
RemoveArg(sel, option) == ArrayArg(RemovedSelectedOptions(sel, option))

\* A click on a chip is a click inside the trigger <div>: after the chip's
\* own onClick the event bubbles to the trigger's onClick unless a handler
\* stops it.  No handler of the component calls stopPropagation.
ChipClickBubbles == TRUE

\* setIsOpen(!isOpen)
Toggled(open) == ~open

\* ArrowDownIndex wrapping one position too late (length for length - 1).
ArrowDownLateWrap(prev, n) ==
  IF prev = Null \/ prev = n THEN 0 ELSE prev + 1

\* (prev) => prev === null || prev === options.length - 1 ? 0 : prev + 1
ArrowDownIndex(prev, n) ==
  IF prev = Null \/ prev = n - 1 THEN 0 ELSE prev + 1

\* (prev) => prev === null || prev === 0 ? options.length - 1 : prev - 1
ArrowUpIndex(prev, n) ==
  IF prev = Null \/ prev = 0 THEN n - 1 ELSE prev - 1

\* OptionAt reading the array one-based (options[i - 1] for options[i]).
OptionAtOneBased(opts, i) ==
  IF i \in 1..Len(opts) THEN opts[i] ELSE Undefined

\* options[highlightedIndex]
OptionAt(opts, i) ==
  IF i + 1 \in 1..Len(opts) THEN opts[i + 1] ELSE Undefined

\* dropdownRef is attached to the root <div>, which is mounted as long as
\* the component is; dropdownMenuRef is attached to the panel, which is
\* rendered only while isOpen.
DropdownRefSet == mounted
DropdownMenuRefSet == mounted /\ isOpen

\* dropdownRef.current.contains(e.target): the root <div> holds the trigger
\* and, unless the panel is portaled to document.body, the panel.
RootContains(target, viaPortal) ==
  target = "trigger" \/ (target = "panel" /\ ~viaPortal)

\* dropdownMenuRef.current.contains(e.target)
MenuContains(target, viaPortal) == target = "panel"

\* ClickIsOutside testing the root <div> alone, without the panel's ref.
OutsideOfRootOnly(target, viaPortal, rootSet, menuSet) ==
  /\ rootSet
  /\ menuSet
  /\ ~RootContains(target, viaPortal)

\* The condition under which handleClickOutside calls setIsOpen(false).
ClickIsOutside(target, viaPortal, rootSet, menuSet) ==
  /\ rootSet
  /\ menuSet
  /\ ~RootContains(target, viaPortal)
  /\ ~MenuContains(target, viaPortal)

\* The trigger renders selectedOptions.map((opt) => <span key={opt.value}>),
\* which throws on an undefined element; React then unmounts the tree.
RenderThrows(sel) == \E i \in 1..Len(sel) : sel[i] = Undefined

\* ----------------------------------------------------------- rendering

\* A string is a sequence of characters (UTF-16 code units), each written
\* as a TLA+ string.  "Idot" is the capital I with dot above (U+0130) and
\* "dot" the combining dot above (U+0307).

\* String.prototype.toLowerCase, one character at a time: it maps a capital
\* letter to its small letter, U+0130 to the two units "i" U+0307, and
\* leaves any other character as it is.
LowerChar(c) ==
  CASE c = "A" -> <<"a">>
    [] c = "B" -> <<"b">>
    [] c = "C" -> <<"c">>
    [] c = "D" -> <<"d">>
    [] c = "N" -> <<"n">>
    [] c = "S" -> <<"s">>
    [] c = "Idot" -> <<"i", "dot">>
    [] OTHER -> <<c>>

RECURSIVE ToLowerCase(_)
ToLowerCase(str) ==
  IF str = <<>> THEN <<>>
  ELSE LowerChar(Head(str)) \o ToLowerCase(Tail(str))

\* hay.indexOf(needle): the least position (0-based) at which needle
\* starts in hay, -1 if there is none; the empty needle is found at 0.
IndexOf(hay, needle) ==
  LET at == { k \in 0..(Len(hay) - Len(needle)) :
                \A j \in 1..Len(needle) : hay[k + j] = needle[j] }
  IN  IF at = {} THEN -1
      ELSE CHOOSE k \in at : \A m \in at : k <= m

\* str.slice(from, to) for from, to >= 0: both are clamped to the length.
Slice(str, from, to) ==
  LET a == IF from > Len(str) THEN Len(str) ELSE from
      b == IF to > Len(str) THEN Len(str) ELSE to
  IN  IF b <= a THEN <<>> ELSE SubSeq(str, a + 1, b)

\* matchStartIndex of renderDefaultOption
MatchStartIndex(label, term) ==
  IndexOf(ToLowerCase(label), ToLowerCase(term))

\* The text children of a row: (prefix, match, suffix) when the term is
\* found, the label alone when it is not.
LabelParts(label, term) ==
  LET matchStartIndex == MatchStartIndex(label, term)
      matchEndIndex == matchStartIndex + Len(term)
  IN  IF matchStartIndex > -1
        THEN <<Slice(label, 0, matchStartIndex),
               Slice(label, matchStartIndex, matchEndIndex),
               Slice(label, matchEndIndex, Len(label))>>
        ELSE <<label>>

\* "bg-yellow-100": highlightedIndex !== null && highlightedIndex === option.value
HasOverlay(option, hl) == hl # Null /\ hl = option.value

\* renderDefaultOption(option, isSelected): the row of one option.
RenderDefaultOption(option, isSelected, term, hl) ==
  [option |-> option,
   selected |-> isSelected,
   overlay |-> HasOverlay(option, hl),
   parts |-> LabelParts(option.label, term)]

\* The rows of a panel that leaves out the options the term does not match.
FilteredRows(opts, sel, term, hl) ==
  LET shown == SelectSeq(opts,
                 LAMBDA o : MatchStartIndex(o.label, term) > -1)
  IN  [i \in 1..Len(shown) |->
         RenderDefaultOption(shown[i], IsSelected(sel, shown[i]), term, hl)]

\* options.map((option, index) => renderDefaultOption(option, ...)): the
\* rows of the panel, top to bottom.
RenderedRows(opts, sel, term, hl) ==
  [i \in 1..Len(opts) |->
     RenderDefaultOption(opts[i], IsSelected(sel, opts[i]), term, hl)]

\* {isOpen && (portal ? createPortal(dropdownMenu, ...) : dropdownMenu)}
PanelRendered == mounted /\ isOpen

\* The rows on screen.
Rows == RenderedRows(options, selectedOptions, searchTerm, highlightedIndex)

\* useEffect(() => { document.addEventListener("mousedown", ...); return
\* () => document.removeEventListener("mousedown", ...) }, []): the effect
\* runs after the first render, which leaves one listener installed.
ListenersAfterMount == 1

\* The dependency array is empty: a re-render neither cleans the effect up
\* nor runs it again.
ListenersAfterRender(n) == n

\* ListenersAfterUnmount for an effect that returns no cleanup.
NoCleanup(n) == n

\* Unmounting runs the effect's cleanup, which removes the handler the
\* effect installed.
ListenersAfterUnmount(n) == n - 1

\* The keys handleKeyDown has a case for.
HandledKeys == {"ArrowDown", "ArrowUp", "Enter"}

\* An event that commits an option or removes a chip.
IsMutation(evt) ==
  \/ evt.kind = "chipClick"
  \/ evt.kind \in {"optionClick", "enter"} /\ evt.opt # NoOption

\* ------------------------------------------------------------------ state

Snapshot ==
  [isOpen |-> isOpen, searchTerm |-> searchTerm,
   selectedOptions |-> selectedOptions, highlightedIndex |-> highlightedIndex]

Evt(kind, option, target) == [kind |-> kind, opt |-> option, target |-> target]

\* What is kept of an event once another has followed it: the kind and the
\* option of a commit or a chip removal, and of any other event only that
\* it took place.
Remembered(evt) ==
  IF IsMutation(evt) THEN Evt(evt.kind, evt.opt, "")
                     ELSE Evt("other", NoOption, "")

Init ==
  /\ options \in OptionLists
  /\ isMultiple \in BOOLEAN
  /\ portal \in BOOLEAN
  /\ searchable \in BOOLEAN
  /\ isOpen = FALSE
  /\ searchTerm = <<>>
  /\ selectedOptions = <<>>
  /\ highlightedIndex = Null
  /\ mounted = TRUE
  /\ listeners = ListenersAfterMount
  /\ unmatchedCalls = 0
  /\ calls = <<>>
  /\ lastEvt = Evt("mount", NoOption, "")
  /\ pre = Snapshot
  /\ prevEvt = Remembered(Evt("mount", NoOption, ""))
  /\ prePrevSel = <<>>

\* One dispatched event: the state updates its handlers queued, committed
\* together by the render that follows, and the onChange calls they made.
Dispatch(evt, open, term, sel, hl, called) ==
  /\ isOpen' = open
  /\ searchTerm' = term
  /\ selectedOptions' = sel
  /\ highlightedIndex' = hl
  /\ calls' = called
  /\ unmatchedCalls' =
       unmatchedCalls + Len(called) - (IF IsMutation(evt) THEN 1 ELSE 0)
  /\ mounted' = (mounted /\ ~RenderThrows(sel))
  /\ listeners' = IF mounted /\ RenderThrows(sel)
                    THEN ListenersAfterUnmount(listeners)
                    ELSE ListenersAfterRender(listeners)
  /\ lastEvt' = evt
  /\ pre' = Snapshot
  /\ prevEvt' = Remembered(lastEvt)
  /\ prePrevSel' = pre.selectedOptions
  /\ UNCHANGED props

\* handleOptionClick(option), reached from an option row's onClick and from
\* Enter.
handleOptionClick(evt, option) ==
  IF OptionClickThrows(selectedOptions, option, isMultiple)
    THEN Dispatch(evt, isOpen, searchTerm, selectedOptions,
                  highlightedIndex, <<>>)
    ELSE Dispatch(evt,
                  IF isMultiple THEN isOpen ELSE FALSE,
                  searchTerm,
                  NewSelectedOptions(selectedOptions, option, isMultiple),
                  highlightedIndex,
                  <<OptionClickArg(selectedOptions, option, isMultiple)>>)

\* ----------------------------------------------------------------- events

\* TriggerClick with a handleToggle that also clears the search and the
\* highlight.
TriggerClickResets ==
  /\ mounted
  /\ Dispatch(Evt("triggerClick", NoOption, ""),
              Toggled(isOpen), <<>>, selectedOptions, Null, <<>>)

\* click on the trigger <div>: handleToggle
TriggerClick ==
  /\ mounted
  /\ Dispatch(Evt("triggerClick", NoOption, ""),
              Toggled(isOpen), searchTerm, selectedOptions,
              highlightedIndex, <<>>)

\* click on an option row of the open panel (built-in renderer)
OptionClick ==
  /\ mounted
  /\ isOpen
  /\ \E i \in 1..Len(options) :
       handleOptionClick(Evt("optionClick", options[i], ""), options[i])

\* click on a chip of the trigger: handleRemoveOption, then, as the click
\* bubbles, the trigger's handleToggle
ChipClick ==
  /\ mounted
  /\ \E k \in 1..Len(selectedOptions) :
       LET opt == selectedOptions[k] IN
       Dispatch(Evt("chipClick", opt, ""),
                IF ChipClickBubbles THEN Toggled(isOpen) ELSE isOpen,
                searchTerm,
                RemovedSelectedOptions(selectedOptions, opt),
                highlightedIndex,
                <<RemoveArg(selectedOptions, opt)>>)

\* mousedown anywhere in the document: handleClickOutside, if it is
\* installed
MouseDown ==
  /\ listeners > 0
  /\ \E target \in Targets :
       /\ target = "panel" => isOpen
       /\ Dispatch(Evt("mouseDown", NoOption, target),
                   IF ClickIsOutside(target, portal, DropdownRefSet,
                                     DropdownMenuRefSet)
                     THEN FALSE ELSE isOpen,
                   searchTerm, selectedOptions, highlightedIndex, <<>>)

\* SearchInputRendered for a search input rendered outside the isOpen test.
InputAlwaysRendered == mounted /\ searchable

\* The search input, the only element with onKeyDown and onChange, exists
\* while the panel is rendered and searchable is set.
SearchInputRendered == mounted /\ isOpen /\ searchable

\* SearchChange with a handleSearchChange that also notifies the caller.
SearchChangeNotifies ==
  /\ SearchInputRendered
  /\ \E term \in SearchTerms :
       Dispatch(Evt("search", NoOption, ""),
                isOpen, term, selectedOptions, highlightedIndex,
                <<ArrayArg(selectedOptions)>>)

\* change event of the search input: handleSearchChange
SearchChange ==
  /\ SearchInputRendered
  /\ \E term \in SearchTerms :
       Dispatch(Evt("search", NoOption, ""),
                isOpen, term, selectedOptions, highlightedIndex, <<>>)

\* keydown ArrowDown in the search input
KeyArrowDown ==
  /\ SearchInputRendered
  /\ LET hl == ArrowDownIndex(highlightedIndex, Len(options)) IN
     /\ hl <= Len(options) + MaxIdx
     /\ Dispatch(Evt("arrowDown", NoOption, ""),
                 isOpen, searchTerm, selectedOptions, hl, <<>>)

\* keydown ArrowUp in the search input
KeyArrowUp ==
  /\ SearchInputRendered
  /\ LET hl == ArrowUpIndex(highlightedIndex, Len(options)) IN
     /\ hl >= -MaxIdx
     /\ Dispatch(Evt("arrowUp", NoOption, ""),
                 isOpen, searchTerm, selectedOptions, hl, <<>>)

\* keydown Enter in the search input
KeyEnter ==
  /\ SearchInputRendered
  /\ IF highlightedIndex # Null
       THEN LET opt == OptionAt(options, highlightedIndex) IN
            handleOptionClick(Evt("enter", opt, ""), opt)
       ELSE Dispatch(Evt("enter", NoOption, ""),
                     isOpen, searchTerm, selectedOptions,
                     highlightedIndex, <<>>)

\* keydown of any other key in the search input: the default branch
KeyOther ==
  /\ SearchInputRendered
  /\ Dispatch(Evt("otherKey", NoOption, ""),
              isOpen, searchTerm, selectedOptions, highlightedIndex, <<>>)

\* keydown of a key handleKeyDown knows while the focus is not in the
\* search input, the only element with onKeyDown: no handler runs.
KeyElsewhere ==
  /\ mounted
  /\ \E key \in HandledKeys :
       Dispatch(Evt("keyElsewhere", NoOption, key),
                isOpen, searchTerm, selectedOptions, highlightedIndex, <<>>)

\* The parent removes the component: effects are cleaned up, state is dropped.
Unmount ==
  /\ mounted
  /\ mounted' = FALSE
  /\ listeners' = ListenersAfterUnmount(listeners)
  /\ calls' = <<>>
  /\ lastEvt' = Evt("unmount", NoOption, "")
  /\ pre' = Snapshot
  /\ prevEvt' = Remembered(lastEvt)
  /\ prePrevSel' = pre.selectedOptions
  /\ UNCHANGED <<props, isOpen, searchTerm, selectedOptions,
                 highlightedIndex, unmatchedCalls>>

Next ==
  \/ TriggerClick
  \/ OptionClick
  \/ ChipClick
  \/ MouseDown
  \/ SearchChange
  \/ KeyArrowDown
  \/ KeyArrowUp
  \/ KeyEnter
  \/ KeyOther
  \/ KeyElsewhere
  \/ Unmount

Spec == Init /\ [][Next]_vars

\* ----------------------------------------------------------------- claims

\* The last event committed a selection: an option click, or Enter on a
\* highlighted index.
Committed ==
  /\ lastEvt.kind \in {"optionClick", "enter"}
  /\ lastEvt.opt # NoOption

\* The last two events were commits of the same option in multi-select mode.
ToggledTwice ==
  /\ isMultiple
  /\ Committed
  /\ prevEvt.kind \in {"optionClick", "enter"}
  /\ prevEvt.opt = lastEvt.opt

Elements(seq) == { seq[i] : i \in 1..Len(seq) }

\* The position of option in seq, 0 if it is not there.
PositionOf(seq, option) ==
  IF \E i \in 1..Len(seq) : seq[i].value = option.value
    THEN CHOOSE i \in 1..Len(seq) : seq[i].value = option.value
    ELSE 0

\* new is old without the elements whose value is v, the others in the
\* order they had: the j-th element of new is the j-th kept element of old.
RemovesExactly(old, new, v) ==
  LET keep == { i \in 1..Len(old) : old[i].value # v } IN
  /\ Len(new) = Cardinality(keep)
  /\ \A j \in 1..Len(new) :
       \E i \in keep :
         /\ Cardinality({ k \in keep : k < i }) = j - 1
         /\ new[j] = old[i]

\* C1 as stated: in multi-select mode, toggling the same option twice in a
\* row returns Selection State to its original contents and order, whether
\* the option was unselected or selected at any position to begin with.
C1_ToggleTwiceRestoresOrder ==
  ToggledTwice => selectedOptions = prePrevSel

\* C1 as amended: toggling the same option twice in a row in multi-select
\* mode returns Selection State to its original contents; the order is the
\* original one when the option was unselected or the last element to
\* begin with, and otherwise the option has moved to the end, the other
\* elements keeping their order.
C1_ToggleTwiceRestoresContents ==
  ToggledTwice =>
    LET at == PositionOf(prePrevSel, lastEvt.opt) IN
    /\ Elements(selectedOptions) = Elements(prePrevSel)
    /\ Len(selectedOptions) = Len(prePrevSel)
    /\ at \in {0, Len(prePrevSel)} => selectedOptions = prePrevSel
    /\ at \notin {0, Len(prePrevSel)} =>
         /\ selectedOptions # prePrevSel
         /\ selectedOptions[Len(selectedOptions)] = lastEvt.opt
         /\ RemovesExactly(prePrevSel,
                           SubSeq(selectedOptions, 1, Len(selectedOptions) - 1),
                           lastEvt.opt.value)

\* An option selected in the middle of three was toggled twice.
C1_Witness ==
  /\ ToggledTwice
  /\ Len(prePrevSel) = 3
  /\ PositionOf(prePrevSel, lastEvt.opt) = 2

\* C2: in multi-select mode handleOptionClick(option) appends option at the
\* end of Selection State when no selected element has its value, and
\* otherwise removes exactly the elements with that value; handleRemoveOption
\* removes exactly the chip's option; all other elements keep their order.
C2_AppendOrRemoveInOrder ==
  /\ (isMultiple /\ Committed) =>
       IF \E i \in 1..Len(pre.selectedOptions) :
            pre.selectedOptions[i].value = lastEvt.opt.value
         THEN RemovesExactly(pre.selectedOptions, selectedOptions,
                             lastEvt.opt.value)
         ELSE /\ Len(selectedOptions) = Len(pre.selectedOptions) + 1
              /\ selectedOptions[Len(selectedOptions)] = lastEvt.opt
              /\ SubSeq(selectedOptions, 1, Len(pre.selectedOptions))
                   = pre.selectedOptions
  /\ lastEvt.kind = "chipClick" =>
       /\ RemovesExactly(pre.selectedOptions, selectedOptions,
                         lastEvt.opt.value)
       /\ lastEvt.opt \notin Elements(selectedOptions)

\* An option was appended behind two selected ones.
C2_Witness ==
  /\ isMultiple
  /\ Committed
  /\ Len(pre.selectedOptions) = 2
  /\ Len(selectedOptions) = 3

\* C3: in single-select mode Selection State has length 0 or 1 in every
\* reachable state, and selecting an option (click or Enter) replaces the
\* selection with exactly [option], whatever was selected before.
C3_SingleSelectReplaces ==
  ~isMultiple =>
    /\ Len(selectedOptions) <= 1
    /\ Committed => selectedOptions = <<lastEvt.opt>>

\* In single-select mode an option replaced another selected option.
C3_Witness ==
  /\ ~isMultiple
  /\ Committed
  /\ Len(pre.selectedOptions) = 1
  /\ pre.selectedOptions[1] # lastEvt.opt
  /\ selectedOptions = <<lastEvt.opt>>

\* C4: for an options list with unique values, no two elements of Selection
\* State share a value, in every state reachable by clicks, Enter commits
\* and chip removals, in either mode.
C4_UniqueValues ==
  \A i, j \in 1..Len(selectedOptions) :
    i # j => selectedOptions[i].value # selectedOptions[j].value

\* An option was selected again after having been removed by its chip.
C4_Witness ==
  /\ Committed
  /\ prevEvt.kind = "chipClick"
  /\ prevEvt.opt = lastEvt.opt
  /\ Len(selectedOptions) >= 2

\* C5: in multi-select mode every selection mutation (option click, Enter
\* commit, chip removal, and any other event that changes Selection State)
\* changes Selection State and calls onChange exactly once, within that
\* event, with the full updated sequence: the contents and order the
\* component holds afterwards.
C5_MultiOnChangeFullSequence ==
  (isMultiple /\ (Committed \/ lastEvt.kind = "chipClick"
                            \/ selectedOptions # pre.selectedOptions)) =>
    /\ selectedOptions # pre.selectedOptions
    /\ calls = <<ArrayArg(selectedOptions)>>

\* The scenario of the specification: Apple, then Banana, then Apple's chip.
C5_Witness ==
  /\ isMultiple
  /\ lastEvt.kind = "chipClick"
  /\ prePrevSel = <<Option(1)>>
  /\ pre.selectedOptions = <<Option(1), Option(2)>>
  /\ calls = <<ArrayArg(<<Option(2)>>)>>

\* C6: in single-select mode, after every mutation of Selection State
\* (selecting an option by click or Enter, removing the selected chip)
\* onChange has been called exactly once and its argument is a single
\* Option, never a sequence of Options.
C6_SingleOnChangeIsOneOption ==
  (~isMultiple /\ (Committed \/ lastEvt.kind = "chipClick")) =>
    /\ Len(calls) = 1
    /\ calls[1].shape = "option"

\* C7: a click on a chip, once dispatched to every handler it bubbles to,
\* leaves the Open flag as it was, whether the panel was Open or Closed.
C7_ChipClickKeepsOpenFlag ==
  lastEvt.kind = "chipClick" => isOpen = pre.isOpen

\* C8: while the panel is Open, a mousedown outside both the trigger and
\* the panel closes it, and a mousedown inside either leaves the Open flag
\* as it was, with the panel inline (portal = false) and with the panel
\* attached to document.body (portal = true).
C8_OutsideMouseDownCloses ==
  (lastEvt.kind = "mouseDown" /\ pre.isOpen) =>
    /\ lastEvt.target = "outside" => ~isOpen
    /\ lastEvt.target \in {"trigger", "panel"} => isOpen

\* A mousedown landed on the open, portaled panel.
C8_Witness ==
  /\ portal
  /\ lastEvt.kind = "mouseDown"
  /\ lastEvt.target = "panel"
  /\ pre.isOpen
  /\ isOpen

\* C9: a commit (option click, or Enter on a highlighted option) leaves the
\* panel Closed in single-select mode and Open in multi-select mode, and
\* the panel goes from Open to Closed only by a single-select commit, a
\* click that activates the trigger, or an outside mousedown.
C9_OnlyThreeWaysToClose ==
  /\ (Committed /\ ~isMultiple) => ~isOpen
  /\ (Committed /\ isMultiple) => isOpen
  /\ (pre.isOpen /\ ~isOpen) =>
       \/ Committed /\ ~isMultiple
       \/ lastEvt.kind = "triggerClick"
       \/ lastEvt.kind = "mouseDown" /\ lastEvt.target = "outside"

\* C10: for a non-empty options list of length n a handled ArrowDown takes
\* the Highlighted Index from null to 0 and from i to (i + 1) mod n, a
\* handled ArrowUp from null to n - 1 and from i to (i - 1) mod n, over the
\* full options array and for every Search Term.
C10_ArrowsWrapCircularly ==
  LET n == Len(options)
      i == pre.highlightedIndex
  IN  n > 0 =>
        /\ lastEvt.kind = "arrowDown" =>
             highlightedIndex = IF i = Null THEN 0 ELSE (i + 1) % n
        /\ lastEvt.kind = "arrowUp" =>
             highlightedIndex = IF i = Null THEN n - 1 ELSE (i + n - 1) % n
        /\ highlightedIndex # Null => highlightedIndex \in 0..(n - 1)

\* ArrowDown wrapped from the last of three options to the first while a
\* Search Term that matches only one of them was typed in.
C10_Witness ==
  /\ Len(options) = 3
  /\ searchTerm = <<"a", "n">>
  /\ lastEvt.kind = "arrowDown"
  /\ pre.highlightedIndex = 2
  /\ highlightedIndex = 0

\* What a click on the row of option does to a state: the new Selection
\* State, the new Open flag and the onChange calls made.
ClickOutcome(before, option) ==
  [sel |-> NewSelectedOptions(before.selectedOptions, option, isMultiple),
   open |-> IF isMultiple THEN before.isOpen ELSE FALSE,
   calls |-> <<OptionClickArg(before.selectedOptions, option, isMultiple)>>]

\* What the last event made of Selection State, Open flag and onChange.
Outcome == [sel |-> selectedOptions, open |-> isOpen, calls |-> calls]

\* C11: Enter with a non-null Highlighted Index i leaves Selection State,
\* the Open flag and the onChange call exactly as a click on options[i] in
\* the same state leaves them, in single- and in multi-select mode: both
\* events, started from the same state, end in the one outcome of a click
\* on that option, and the option Enter commits is the i-th (0-based).
C11_EnterEqualsClick ==
  /\ (lastEvt.kind = "optionClick") =>
       Outcome = ClickOutcome(pre, lastEvt.opt)
  /\ (lastEvt.kind = "enter" /\ pre.highlightedIndex # Null
        /\ pre.highlightedIndex \in 0..(Len(options) - 1)) =>
       /\ lastEvt.opt = options[pre.highlightedIndex + 1]
       /\ Outcome = ClickOutcome(pre, options[pre.highlightedIndex + 1])

\* Enter removed the second of three options from a multi-selection.
C11_Witness ==
  /\ isMultiple
  /\ lastEvt.kind = "enter"
  /\ pre.highlightedIndex = 1
  /\ pre.selectedOptions = <<Option(1), Option(2)>>
  /\ selectedOptions = <<Option(1)>>

\* The last event was a press of ArrowDown, ArrowUp or Enter, whether a
\* handler of the component received it or not.
KeyPressed ==
  lastEvt.kind \in {"arrowDown", "arrowUp", "enter", "keyElsewhere"}

\* The last event left the component's state as it was.
StateKept ==
  /\ isOpen = pre.isOpen
  /\ searchTerm = pre.searchTerm
  /\ selectedOptions = pre.selectedOptions
  /\ highlightedIndex = pre.highlightedIndex

\* C12: while the panel is Closed, ArrowDown, ArrowUp and Enter change
\* neither Highlighted Index nor Selection State nor the Open flag and call
\* no onChange, as no element that handles keys is rendered then.
C12_KeysNoOpWhileClosed ==
  (KeyPressed /\ ~pre.isOpen) =>
    /\ lastEvt.kind = "keyElsewhere"
    /\ StateKept
    /\ calls = <<>>

\* Enter was pressed on a closed panel that still has a Highlighted Index.
C12_Witness ==
  /\ lastEvt.kind = "keyElsewhere"
  /\ lastEvt.target = "Enter"
  /\ ~pre.isOpen
  /\ searchable
  /\ highlightedIndex # Null
  /\ selectedOptions = <<>>

\* C13: for every Search Term the rows of the open panel show the full
\* options list in its original order; typing never removes an option
\* that does not match.
C13_AllOptionsRendered ==
  PanelRendered =>
    /\ Len(Rows) = Len(options)
    /\ \A i \in 1..Len(options) : Rows[i].option = options[i]

\* "an" was typed over three options, two of which do not contain it.
C13_Witness ==
  /\ PanelRendered
  /\ lastEvt.kind = "search"
  /\ searchTerm = <<"a", "n">>
  /\ Len(options) = 3
  /\ MatchStartIndex(options[1].label, searchTerm) = -1
  /\ MatchStartIndex(options[2].label, searchTerm) = 1

\* The key of the last key press.
KeyOf(evt) ==
  CASE evt.kind = "arrowDown" -> "ArrowDown"
    [] evt.kind = "arrowUp" -> "ArrowUp"
    [] evt.kind = "enter" -> "Enter"
    [] OTHER -> evt.target

\* C14: whenever the panel is Open, with searchable set or not, ArrowDown
\* and ArrowUp advance the Highlighted Index and Enter commits the
\* highlighted option.  (With searchable set the keys are pressed in the
\* search input; without it there is no input and they are pressed with
\* the panel open.  Stated for the non-empty options lists.)
C14_KeysWorkWithoutSearchInput ==
  (KeyPressed /\ pre.isOpen /\ Len(options) > 0
     /\ (lastEvt.kind # "keyElsewhere" \/ ~searchable)) =>
    /\ KeyOf(lastEvt) = "ArrowDown" =>
         highlightedIndex = ArrowDownIndex(pre.highlightedIndex, Len(options))
    /\ KeyOf(lastEvt) = "ArrowUp" =>
         highlightedIndex = ArrowUpIndex(pre.highlightedIndex, Len(options))
    /\ (KeyOf(lastEvt) = "Enter" /\ pre.highlightedIndex # Null) =>
         /\ Committed
         /\ calls # <<>>

\* C15: in the built-in renderer the keyboard-highlight overlay is on
\* exactly the row at position Highlighted Index of the options array, and
\* on no row when Highlighted Index is null, whatever the values of the
\* options are and whether the option is selected or not.
C15_OverlayAtHighlightedIndex ==
  PanelRendered =>
    \A i \in 1..Len(options) :
      Rows[i].overlay <=> (highlightedIndex # Null /\ highlightedIndex = i - 1)

\* C16: a click that activates the trigger and a mousedown change nothing
\* but the Open flag: Search Term, Selection State and Highlighted Index
\* are the same before and after, so a Search Term typed before the panel
\* closed is still there when it is open again.
C16_OpenCloseKeepsTheRest ==
  lastEvt.kind \in {"triggerClick", "mouseDown"} =>
    /\ searchTerm = pre.searchTerm
    /\ selectedOptions = pre.selectedOptions
    /\ highlightedIndex = pre.highlightedIndex
    /\ calls = <<>>

\* The panel was opened again with the Search Term and the Highlighted
\* Index it had been closed with.
C16_Witness ==
  /\ lastEvt.kind = "triggerClick"
  /\ ~pre.isOpen
  /\ isOpen
  /\ searchTerm = <<"a", "n">>
  /\ highlightedIndex = 1
  /\ Len(selectedOptions) = 2

\* C17: the document's mousedown listener is installed once when the
\* component mounts and removed when it unmounts: exactly one listener is
\* installed in every state in which the component is mounted, whatever was
\* opened, closed, selected or re-rendered, none is installed once it is
\* unmounted, and no event is handled after the one that unmounted it.
C17_OneListenerWhileMounted ==
  /\ mounted => listeners = 1
  /\ ~mounted =>
       /\ listeners = 0
       /\ lastEvt.kind = "unmount" \/ RenderThrows(selectedOptions)

\* The component was unmounted with its panel open, after a selection and
\* a re-opening.
C17_Witness ==
  /\ ~mounted
  /\ lastEvt.kind = "unmount"
  /\ listeners = 0
  /\ isOpen
  /\ prevEvt.kind = "optionClick"
  /\ Len(selectedOptions) = 2

\* ------------------------------------------------ the label of one row

\* Longest label and longest Search Term of the rendering specification.
MaxLabelLen == 3
MaxTermLen == 2

\* The characters labels and Search Terms are made of: a letter in both
\* cases, a second letter, and a capital whose small form is two units long.
Chars == {"A", "a", "s", "Idot"}

StringsUpTo(n) == UNION { [1..k -> Chars] : k \in 0..n }

\* One option with any label; the panel is closed and nothing is typed.
InitRender ==
  /\ options \in { <<[value |-> 1, label |-> l]>> : l \in StringsUpTo(MaxLabelLen) }
  /\ isMultiple = TRUE
  /\ portal = FALSE
  /\ searchable = TRUE
  /\ isOpen = FALSE
  /\ searchTerm = <<>>
  /\ selectedOptions = <<>>
  /\ highlightedIndex = Null
  /\ mounted = TRUE
  /\ listeners = ListenersAfterMount
  /\ unmatchedCalls = 0
  /\ calls = <<>>
  /\ lastEvt = Evt("mount", NoOption, "")
  /\ pre = Snapshot
  /\ prevEvt = Remembered(Evt("mount", NoOption, ""))
  /\ prePrevSel = <<>>

\* change event of the search input with any text: handleSearchChange
TypeTerm ==
  /\ SearchInputRendered
  /\ \E term \in StringsUpTo(MaxTermLen) :
       Dispatch(Evt("search", NoOption, ""),
                isOpen, term, selectedOptions, highlightedIndex, <<>>)

NextRender ==
  \/ TriggerClick
  \/ TypeTerm

SpecRender == InitRender /\ [][NextRender]_vars

\* Two characters are equal ignoring case.
SameIgnoringCase(c, d) == LowerChar(c) = LowerChar(d)

\* The positions (0-based) at which term occurs in label ignoring case.
Occurrences(label, term) ==
  { k \in 0..(Len(label) - Len(term)) :
      \A j \in 1..Len(term) : SameIgnoringCase(label[k + j], term[j]) }

\* C18: for every label and Search Term the built-in renderer finds the
\* first occurrence of the Search Term in the label ignoring case; if there
\* is one, the row shows (prefix, match, suffix) with prefix + match +
\* suffix the label, match as long as the Search Term and equal to it
\* ignoring case, and prefix ending where the first occurrence starts; if
\* there is none, the row shows the label unsplit.
C18_FirstMatchSplit ==
  PanelRendered =>
    LET label == options[1].label
        parts == Rows[1].parts
        occ == Occurrences(label, searchTerm)
    IN  IF occ = {}
          THEN parts = <<label>>
          ELSE /\ Len(parts) = 3
               /\ parts[1] \o parts[2] \o parts[3] = label
               /\ Len(parts[2]) = Len(searchTerm)
               /\ \A j \in 1..Len(parts[2]) :
                    SameIgnoringCase(parts[2][j], searchTerm[j])
               /\ \A k \in occ : Len(parts[1]) <= k
               /\ Len(parts[1]) \in occ

\* C19: for any fixed options list, the empty one included, the Highlighted
\* Index is null or an index of the list in every reachable state, every
\* element of Selection State is an element of the list, and so is every
\* option passed to onChange.
C19_IndexAndSelectionInRange ==
  /\ highlightedIndex = Null \/ highlightedIndex \in 0..(Len(options) - 1)
  /\ Elements(selectedOptions) \subseteq Elements(options)
  /\ \A c \in 1..Len(calls) : Elements(calls[c].items) \subseteq Elements(options)

\* C20: onChange is called by selection mutations only.  A click on the
\* trigger, a mousedown, ArrowDown, ArrowUp, Enter with a null Highlighted
\* Index, any other key and typing in the search input leave Selection
\* State as it was and call onChange zero times; a commit and a chip
\* removal call it once; so the number of onChange calls made so far is the
\* number of commits plus chip removals.
C20_OnChangeOnlyOnMutation ==
  /\ (~IsMutation(lastEvt)) =>
       /\ selectedOptions = pre.selectedOptions
       /\ calls = <<>>
  /\ IsMutation(lastEvt) => Len(calls) = 1
  /\ unmatchedCalls = 0

\* Enter was pressed with a null Highlighted Index while two options were
\* selected.
C20_Witness ==
  /\ lastEvt.kind = "enter"
  /\ lastEvt.opt = NoOption
  /\ pre.highlightedIndex = Null
  /\ Len(selectedOptions) = 2
  /\ calls = <<>>

====
